---------------------------- MODULE Spec2Model ----------------------------
(* A model of bin/ensure_cloudtrail.py: the bucket ensurer, the policy     *)
(* composer and the trail enabler, run against a remote account (S3        *)
(* buckets and their policies, per-region CloudTrail trails, the IAM       *)
(* identity of the caller).                                                *)
(*                                                                         *)
(* Python strings are sequences of chunks (<<"arn:aws:s3:::", "B">> is     *)
(* "arn:aws:s3:::B"); the chunks are chosen so that no string has two      *)
(* chunkings.  Python/JSON values are tagged: JStr, JList, JObj.           *)
EXTENDS Integers, Sequences, FiniteSets, TLC

(***************************************************************************)
(* Bounds of the model                                                     *)
(***************************************************************************)
MaxStmts == 2      \* statements in a bucket policy that exists before a run
MaxRegions == 2    \* regions of the account
MaxTrails == 2     \* trails that exist in a region before a run
MaxRuns == 2       \* successive invocations of the tool

(***************************************************************************)
(* Strings                                                                 *)
(***************************************************************************)
Range(s) == {s[i] : i \in DOMAIN s}

IsPrefix(a, s) == Len(a) <= Len(s) /\ SubSeq(s, 1, Len(a)) = a

Occurs(a, s) == \E i \in 0..(Len(s) - Len(a)) : SubSeq(s, i + 1, i + Len(a)) = a

Reverse(s) == [i \in 1..Len(s) |-> s[Len(s) + 1 - i]]

\* str.split(sep), sep one chunk: the fields between the separators.
RECURSIVE Split(_, _)
Split(s, sep) ==
    IF \A i \in DOMAIN s : s[i] # sep THEN <<s>>
    ELSE LET i == CHOOSE k \in DOMAIN s :
                      s[k] = sep /\ \A j \in 1..(k - 1) : s[j] # sep
         IN  <<SubSeq(s, 1, i - 1)>> \o Split(SubSeq(s, i + 1, Len(s)), sep)

(***************************************************************************)
(* Python / JSON values                                                    *)
(***************************************************************************)
JStr(s) == [k |-> "str", v |-> s]
JList(l) == [k |-> "list", v |-> l]
JObj(f) == [k |-> "obj", v |-> f]

EmptyDict == [x \in {} |-> JStr(<<>>)]

HasKey(d, key) == d.k = "obj" /\ key \in DOMAIN d.v

\* The order in which the keys of a dictionary are written.
KeyOrder ==
    <<"Version", "Statement", "Sid", "Effect", "Principal", "AWS", "Action",
      "Resource", "Condition", "StringEquals", "s3:x-amz-acl">>

Tok(t) == [t |-> t, s |-> <<>>]
StrTok(s) == [t |-> "str", s |-> s]

\* The text of a value: tokens, with white space where indent puts it.
RECURSIVE Serialize(_, _, _)
RECURSIVE SerializeItems(_, _, _)
SerializeItems(items, indent, order) ==
    IF items = <<>> THEN <<>>
    ELSE (IF indent THEN <<Tok("ws")>> ELSE <<>>)
         \o items[1]
         \o (IF Len(items) > 1 THEN <<Tok(",")>>
             ELSE IF indent THEN <<Tok("ws")>> ELSE <<>>)
         \o SerializeItems(Tail(items), indent, order)

Serialize(x, indent, order) ==
    IF x.k = "str" THEN <<StrTok(x.v)>>
    ELSE IF x.k = "list"
    THEN <<Tok("[")>>
         \o SerializeItems([i \in DOMAIN x.v |-> Serialize(x.v[i], indent, order)],
                           indent, order)
         \o <<Tok("]")>>
    ELSE LET keys == SelectSeq(order, LAMBDA key : key \in DOMAIN x.v)
         IN  <<Tok("{")>>
             \o SerializeItems(
                  [i \in DOMAIN keys |->
                      <<StrTok(<<keys[i]>>), Tok(":")>>
                      \o (IF indent THEN <<Tok("ws")>> ELSE <<>>)
                      \o Serialize(x.v[keys[i]], indent, order)],
                  indent, order)
             \o <<Tok("}")>>

\* json.dumps(value, indent=2)
json_dumps(x) == Serialize(x, TRUE, KeyOrder)

RECURSIVE SkipWs(_)
SkipWs(ts) == IF ts # <<>> /\ ts[1].t = "ws" THEN SkipWs(Tail(ts)) ELSE ts

\* The parser: a value and the tokens after it.
RECURSIVE ParseValue(_)
RECURSIVE ParseElems(_, _)
RECURSIVE ParseMembers(_, _)
ParseValue(ts0) ==
    LET ts == SkipWs(ts0)
    IN  IF ts[1].t = "str" THEN [v |-> JStr(ts[1].s), rest |-> Tail(ts)]
        ELSE IF ts[1].t = "[" THEN ParseElems(Tail(ts), <<>>)
        ELSE ParseMembers(Tail(ts), EmptyDict)

ParseElems(ts0, acc) ==
    LET ts == SkipWs(ts0)
    IN  IF ts[1].t = "]" THEN [v |-> JList(acc), rest |-> Tail(ts)]
        ELSE IF ts[1].t = "," THEN ParseElems(Tail(ts), acc)
        ELSE LET r == ParseValue(ts)
             IN  ParseElems(r.rest, Append(acc, r.v))

ParseMembers(ts0, acc) ==
    LET ts == SkipWs(ts0)
    IN  IF ts[1].t = "}" THEN [v |-> JObj(acc), rest |-> Tail(ts)]
        ELSE IF ts[1].t = "," THEN ParseMembers(Tail(ts), acc)
        ELSE LET key == ts[1].s[1]
                 r == ParseValue(Tail(SkipWs(Tail(ts))))
             IN  ParseMembers(r.rest,
                     [x \in DOMAIN acc \cup {key} |->
                         IF x = key THEN r.v ELSE acc[x]])

\* json.loads(text)
json_loads(text) == ParseValue(text).v

(***************************************************************************)
(* The two statements of the tool                                          *)
(***************************************************************************)
CloudTrailPrincipals ==
    JObj([AWS |-> JList(<<
        JStr(<<"arn:aws:iam::903692715234:root">>),
        JStr(<<"arn:aws:iam::859597730677:root">>),
        JStr(<<"arn:aws:iam::814480443879:root">>),
        JStr(<<"arn:aws:iam::216624486486:root">>),
        JStr(<<"arn:aws:iam::086441151436:root">>),
        JStr(<<"arn:aws:iam::388731089494:root">>),
        JStr(<<"arn:aws:iam::284668455005:root">>),
        JStr(<<"arn:aws:iam::113285607260:root">>),
        JStr(<<"arn:aws:iam::035351147821:root">>)>>)])

AclCheckSid == <<"AWSCloudTrailAclCheck", "20131101">>
WriteSid == <<"AWSCloudTrailWrite", "20131101">>

get_aws_cloudtrail_aclcheck_s3_policy_statement(s3_bucket_name) ==
    JObj([Sid |-> JStr(AclCheckSid),
          Effect |-> JStr(<<"Allow">>),
          Principal |-> CloudTrailPrincipals,
          Action |-> JStr(<<"s3:GetBucketAcl">>),
          Resource |-> JStr(<<"arn:aws:s3:::">> \o s3_bucket_name)])

get_aws_cloudtrail_write_s3_policy_statement(aws_account_id, s3_bucket_name, s3_prefix) ==
    JObj([Sid |-> JStr(WriteSid),
          Effect |-> JStr(<<"Allow">>),
          Principal |-> CloudTrailPrincipals,
          Action |-> JStr(<<"s3:PutObject">>),
          Resource |-> JStr(<<"arn:aws:s3:::">> \o s3_bucket_name \o s3_prefix
                            \o <<"/AWSLogs/">> \o aws_account_id \o <<"/*">>),
          Condition |-> JObj([StringEquals |->
              JObj([x \in {"s3:x-amz-acl"} |->
                       JStr(<<"bucket-owner-full-control">>)])])])

\* get_user().arn.split(':')[4]
AccountIdOf(arn) == Split(arn, ":")[5]

(***************************************************************************)
(* The merge of the policy composer                                        *)
(***************************************************************************)
\* The pattern as re.search would take it: the second alternative anywhere.
ReModelSearch(sid) ==
    IsPrefix(<<"AWSCloudTrailAclCheck">>, sid) \/ Occurs(<<"AWSCloudTrailWrite">>, sid)

\* The second alternative of the pattern lost.
ReMatchAclOnly(sid) == IsPrefix(<<"AWSCloudTrailAclCheck">>, sid)

\* re.match('^AWSCloudTrailAclCheck|AWSCloudTrailWrite', sid): re.match
\* matches at the start of the string only, whichever alternative is taken.
re_match(sid) ==
    IsPrefix(<<"AWSCloudTrailAclCheck">>, sid) \/ IsPrefix(<<"AWSCloudTrailWrite">>, sid)

\* The loop with policy_statement.get('Sid', '') for policy_statement['Sid'].
RECURSIVE StripLoopGetSid(_, _)
StripLoopGetSid(stmts, kept) ==
    IF stmts = <<>> THEN [ok |-> TRUE, stmts |-> kept]
    ELSE LET st == stmts[1]
             sid == IF HasKey(st, "Sid") THEN st.v["Sid"].v ELSE <<>>
         IN  IF ~re_match(sid)
             THEN StripLoopGetSid(Tail(stmts), Append(kept, st))
             ELSE StripLoopGetSid(Tail(stmts), kept)

\* The loop with nothing stripped.
StripLoopKeepAll(stmts, kept) == [ok |-> TRUE, stmts |-> kept \o stmts]

\* The loop over existing_bucket_policy['Statement']: the statements kept,
\* or an error (KeyError, TypeError) when a subscript or the match fails.
RECURSIVE StripLoop(_, _)
StripLoop(stmts, kept) ==
    IF stmts = <<>> THEN [ok |-> TRUE, stmts |-> kept]
    ELSE LET st == stmts[1]
         IN  IF ~(HasKey(st, "Sid") /\ st.v["Sid"].k = "str")
             THEN [ok |-> FALSE, stmts |-> kept]
             ELSE IF ~re_match(st.v["Sid"].v)
             THEN StripLoop(Tail(stmts), Append(kept, st))
             ELSE StripLoop(Tail(stmts), kept)

\* Lines 102-113: new_policy['Statement'] after the existing policy is merged.
StripExisting(existing_bucket_policy_str) ==
    IF existing_bucket_policy_str = <<>> THEN [ok |-> TRUE, stmts |-> <<>>]
    ELSE LET existing_bucket_policy == json_loads(existing_bucket_policy_str)
         IN  IF ~(HasKey(existing_bucket_policy, "Statement")
                  /\ existing_bucket_policy.v["Statement"].k = "list")
             THEN [ok |-> FALSE, stmts |-> <<>>]
             ELSE StripLoop(existing_bucket_policy.v["Statement"].v, <<>>)

NewPolicy(stmts) ==
    JObj([Version |-> JStr(<<"2012-10-17">>), Statement |-> JList(stmts)])

\* The statements of the text added to those of the policy the bucket has.
PutBucketPolicyMerge(old_text, text) ==
    IF old_text = <<>> THEN text
    ELSE json_dumps(NewPolicy(json_loads(old_text).v["Statement"].v
                              \o json_loads(text).v["Statement"].v))

\* The bucket's policy after set_policy(text): the text replaces it.
put_bucket_policy(old_text, text) == text

(***************************************************************************)
(* Inputs: the command line, the account before the first run              *)
(***************************************************************************)
Procs == {1, 2}

BucketName == <<"B">>          \* --bucket
OtherBucket == <<"Other">>     \* a bucket of the account the tool is not run on
BucketNames == {BucketName, OtherBucket}
Prefixes == {<<>>, <<"/p">>}   \* --prefix

UserArn == <<"arn", ":", "aws", ":", "iam", ":", ":", "111111111111", ":", "user/ops">>
RootArn == <<"arn", ":", "aws", ":", "iam", ":", ":", "222222222222", ":", "root">>
Arns == {UserArn, RootArn}

Stmt(sid, resource) ==
    JObj([Sid |-> JStr(sid), Effect |-> JStr(<<"Allow">>),
          Action |-> JStr(<<"s3:GetObject">>), Resource |-> JStr(resource)])

AdminStmt == Stmt(<<"Admin">>, <<"arn:aws:s3:::", "B", "/*">>)
OldAclStmt == Stmt(AclCheckSid, <<"arn:aws:s3:::", "Old">>)
OldWriteStmt == Stmt(WriteSid, <<"arn:aws:s3:::", "Old", "/AWSLogs/", "0", "/*">>)
PrefixStmt == Stmt(<<"AWSCloudTrailWrite", "Backup">>, <<"arn:aws:s3:::", "B", "/bak/*">>)
InfixStmt == Stmt(<<"My", "AWSCloudTrailWrite">>, <<"arn:aws:s3:::", "B", "/my/*">>)
NoSidStmt ==
    JObj([Effect |-> JStr(<<"Deny">>), Action |-> JStr(<<"s3:DeleteBucket">>),
          Resource |-> JStr(<<"arn:aws:s3:::", "B">>)])

StmtKinds == {AdminStmt, OldAclStmt, OldWriteStmt, PrefixStmt, InfixStmt, NoSidStmt}

SeqsUpTo(S, n) == UNION {[1..m -> S] : m \in 0..n}

\* The policy documents a bucket may hold before the first run, as values.
PolicyDocs ==
    {NewPolicy(ss) : ss \in SeqsUpTo(StmtKinds, MaxStmts)}
    \cup {JObj([Version |-> JStr(<<"2012-10-17">>)])}

\* Their texts: as the tool writes them, or compact with the keys in another order.
PolicyTexts ==
    {json_dumps(d) : d \in PolicyDocs}
    \cup {Serialize(d, FALSE, Reverse(KeyOrder)) : d \in PolicyDocs}

AllRegions == 1..MaxRegions

RegionLists ==
    {l \in SeqsUpTo(AllRegions, MaxRegions) :
        \A i, j \in DOMAIN l : i # j => l[i] # l[j]}

DefaultTrailName == <<"Default">>

Trail(name, bucket, prefix, global, logging) ==
    [Name |-> name, S3BucketName |-> bucket, S3KeyPrefix |-> prefix,
     IncludeGlobalServiceEvents |-> global, IsLogging |-> logging]

OldTrail(i) == Trail(<<"Trail", ToString(i)>>, OtherBucket, <<>>, FALSE, i % 2 = 0)

\* The trails of a region before the first run: n of them, the newest first.
InitTrailLists == {[i \in 1..n |-> OldTrail(n + 1 - i)] : n \in 0..MaxTrails}

(***************************************************************************)
(* State                                                                   *)
(***************************************************************************)
VARIABLES
    buckets,      \* S3: the names of the buckets that exist
    policy,       \* S3: bucket name -> policy text, <<>> when it has none
    trails,       \* CloudTrail: region -> list of trails, as describe_trails lists them
    regions,      \* what get_cloudtrail_regions returns
    caller_arn,   \* IAM: get_user().arn
    proc,         \* the invocations: position, arguments, locals, calls issued
    run,          \* number of the current run (sequential reruns)
    hist          \* the account before the first run and before the current run

vars == <<buckets, policy, trails, regions, caller_arn, proc, run, hist>>

remote == [buckets |-> buckets, policy |-> policy, trails |-> trails]

NotFound == 404
HttpOk == 200
RemoteErr == {403, 500}    \* any call may fail with one of these

\* A remote call as it is logged: what was asked of which connection (conn is
\* the region of a CloudTrail connection, 0 for S3 and IAM), and the status of
\* the response.
Call(op, conn, name, bucket, prefix, global, status) ==
    [op |-> op, conn |-> conn, name |-> name, bucket |-> bucket,
     prefix |-> prefix, global |-> global, status |-> status]

S3Call(op, bucket, status) == Call(op, 0, <<>>, bucket, <<>>, FALSE, status)
IamCall(op, status) == Call(op, 0, <<>>, <<>>, <<>>, FALSE, status)

\* try: ... except Exception as e: if e.status != 404: raise e
LookupOutcomeNoCheck(status) ==
    IF status = HttpOk THEN "found" ELSE "absent"

\* The test of the status the other way round.
LookupOutcomeInverted(status) ==
    IF status = HttpOk THEN "found"
    ELSE IF status = NotFound THEN "raise"
    ELSE "absent"

LookupOutcome(status) ==
    IF status = HttpOk THEN "found"
    ELSE IF status # NotFound THEN "raise"
    ELSE "absent"

Fresh(entry, prefix) ==
    [pc |-> entry, entry |-> entry, s3_prefix |-> prefix,
     archive_bucket |-> <<>>, existing_bucket_policy_str |-> <<>>,
     new_statements |-> <<>>, region_names |-> <<>>, idx |-> 0,
     trail_list |-> <<>>, trail_name |-> <<>>, calls |-> <<>>,
     err |-> "", status |-> 0]

Idle == [Fresh("idle", <<>>) EXCEPT !.pc = "idle"]

\* The failed call caught and issued again.
FailRetry(p, err, status, call) ==
    proc' = [proc EXCEPT ![p] = [@ EXCEPT !.err = err, !.status = status,
                                          !.calls = Append(@, call)]]

\* An exception nobody catches: the process ends.
Fail(p, err, status, call) ==
    proc' = [proc EXCEPT ![p] = [@ EXCEPT !.pc = "failed", !.err = err,
                                          !.status = status,
                                          !.calls = Append(@, call)]]

(***************************************************************************)
(* ensure_s3_bucket                                                        *)
(***************************************************************************)
\* s3_conn.get_bucket(bucket_name) and the except clause
GetBucket(p) ==
    /\ proc[p].pc = "ensure_s3_bucket"
    /\ LET call(st) == S3Call("get_bucket", BucketName, st)
       IN \E st \in (IF BucketName \in buckets THEN {HttpOk} ELSE {NotFound}) \cup RemoteErr :
            IF LookupOutcome(st) = "found"
            THEN proc' = [proc EXCEPT ![p] = [@ EXCEPT !.pc = "get_policy",
                             !.archive_bucket = BucketName,
                             !.calls = Append(@, call(st))]]
            ELSE IF LookupOutcome(st) = "raise"
            THEN Fail(p, "S3ResponseError", st, call(st))
            ELSE proc' = [proc EXCEPT ![p] = [@ EXCEPT !.pc = "create_bucket",
                             !.calls = Append(@, call(st))]]
    /\ UNCHANGED <<buckets, policy, trails, regions, caller_arn, run, hist>>

\* s3_conn.create_bucket(bucket_name=bucket_name)
CreateBucket(p) ==
    /\ proc[p].pc = "create_bucket"
    /\ LET call(st) == S3Call("create_bucket", BucketName, st)
       IN \E st \in {HttpOk} \cup RemoteErr :
            IF st = HttpOk
            THEN /\ buckets' = buckets \cup {BucketName}
                 /\ proc' = [proc EXCEPT ![p] = [@ EXCEPT !.pc = "get_policy",
                               !.archive_bucket = BucketName,
                               !.calls = Append(@, call(st))]]
            ELSE /\ Fail(p, "S3ResponseError", st, call(st))
                 /\ UNCHANGED buckets
    /\ UNCHANGED <<policy, trails, regions, caller_arn, run, hist>>

(***************************************************************************)
(* ensure_bucket_policy                                                    *)
(***************************************************************************)
\* s3_bucket.get_policy(), the except clause, and the merge of lines 101-116
GetPolicy(p) ==
    /\ proc[p].pc = "get_policy"
    /\ LET call(st) == S3Call("get_policy", BucketName, st)
           text == policy[BucketName]
       IN \E st \in (IF text # <<>> THEN {HttpOk} ELSE {NotFound}) \cup RemoteErr :
            IF LookupOutcome(st) = "raise"
            THEN Fail(p, "S3ResponseError", st, call(st))
            ELSE LET got == IF LookupOutcome(st) = "found" THEN text ELSE <<>>
                     merged == StripExisting(got)
                 IN  IF ~merged.ok
                     THEN proc' = [proc EXCEPT ![p] = [@ EXCEPT !.pc = "failed",
                                     !.err = "KeyError",
                                     !.existing_bucket_policy_str = got,
                                     !.calls = Append(@, call(st))]]
                     ELSE proc' = [proc EXCEPT ![p] = [@ EXCEPT !.pc = "get_user",
                                     !.existing_bucket_policy_str = got,
                                     !.new_statements = Append(merged.stmts,
                                         get_aws_cloudtrail_aclcheck_s3_policy_statement(BucketName)),
                                     !.calls = Append(@, call(st))]]
    /\ UNCHANGED <<buckets, policy, trails, regions, caller_arn, run, hist>>

\* get_aws_account_id() and the append of the write statement (line 118)
GetUser(p) ==
    /\ proc[p].pc = "get_user"
    /\ LET call(st) == IamCall("get_user", st)
       IN \E st \in {HttpOk} \cup RemoteErr :
            IF st = HttpOk
            THEN proc' = [proc EXCEPT ![p] = [@ EXCEPT !.pc = "set_policy",
                             !.new_statements = Append(@,
                                 get_aws_cloudtrail_write_s3_policy_statement(
                                     AccountIdOf(caller_arn), BucketName, proc[p].s3_prefix)),
                             !.calls = Append(@, call(st))]]
            ELSE Fail(p, "BotoServerError", st, call(st))
    /\ UNCHANGED <<buckets, policy, trails, regions, caller_arn, run, hist>>

\* s3_bucket.set_policy(json.dumps(new_policy, indent=2))
SetPolicy(p) ==
    /\ proc[p].pc = "set_policy"
    /\ LET call(st) == S3Call("set_policy", BucketName, st)
       IN \E st \in {HttpOk} \cup RemoteErr :
            IF st = HttpOk
            THEN /\ policy' = [policy EXCEPT ![BucketName] =
                        put_bucket_policy(@, json_dumps(NewPolicy(proc[p].new_statements)))]
                 /\ proc' = [proc EXCEPT ![p] = [@ EXCEPT
                        !.pc = IF proc[p].entry = "ensure_s3_bucket"
                               THEN "ensure_cloudtrail" ELSE "done",
                        !.calls = Append(@, call(st))]]
            ELSE /\ Fail(p, "S3ResponseError", st, call(st))
                 /\ UNCHANGED policy
    /\ UNCHANGED <<buckets, trails, regions, caller_arn, run, hist>>

(***************************************************************************)
(* ensure_cloudtrail, ensure_cloudtrail_for_region                         *)
(***************************************************************************)
TrailCall(op, region, name, bucket, prefix, global, status) ==
    Call(op, region, name, bucket, prefix, global, status)

\* The loop stopping one region early.
AfterRegionOffByOne(names, idx) ==
    IF idx + 1 < Len(names) THEN "describe_trails" ELSE "done"

\* The position after a region is finished: the next region, or the end.
AfterRegion(names, idx) == IF idx < Len(names) THEN "describe_trails" ELSE "done"

\* get_cloudtrail_regions() and the head of the for loop
GetRegions(p) ==
    /\ proc[p].pc = "ensure_cloudtrail"
    /\ proc' = [proc EXCEPT ![p] = [@ EXCEPT
                   !.region_names = regions,
                   !.idx = IF regions = <<>> THEN 0 ELSE 1,
                   !.pc = AfterRegion(regions, 0)]]
    /\ UNCHANGED <<buckets, policy, trails, regions, caller_arn, run, hist>>

\* The last trail of the list taken for the first.
ChooseLastTrail(trail_list) ==
    IF trail_list = <<>>
    THEN [pc |-> "create_trail", trail_name |-> DefaultTrailName]
    ELSE [pc |-> "update_trail", trail_name |-> trail_list[Len(trail_list)].Name]

\* The branch of lines 131-143: which trail, and which call.
ChooseTrail(trail_list) ==
    IF trail_list = <<>>
    THEN [pc |-> "create_trail", trail_name |-> DefaultTrailName]
    ELSE [pc |-> "update_trail", trail_name |-> trail_list[1].Name]

\* cloudtrail_conn.describe_trails()['trailList'] and the branch on it
DescribeTrails(p) ==
    /\ proc[p].pc = "describe_trails"
    /\ LET region_name == proc[p].region_names[proc[p].idx]
           call(st) == TrailCall("describe_trails", region_name, <<>>, <<>>, <<>>, FALSE, st)
       IN \E st \in {HttpOk} \cup RemoteErr :
            IF st = HttpOk
            THEN LET trail_list == trails[region_name]
                     br == ChooseTrail(trail_list)
                 IN  proc' = [proc EXCEPT ![p] = [@ EXCEPT !.pc = br.pc,
                                 !.trail_list = trail_list,
                                 !.trail_name = br.trail_name,
                                 !.calls = Append(@, call(st))]]
            ELSE Fail(p, "JSONResponseError", st, call(st))
    /\ UNCHANGED <<buckets, policy, trails, regions, caller_arn, run, hist>>

\* The arguments of create_trail / update_trail (lines 133-136, 140-143).
TrailArgs(p) ==
    [name |-> proc[p].trail_name, s3_bucket_name |-> proc[p].archive_bucket,
     s3_key_prefix |-> proc[p].s3_prefix, include_global_service_events |-> TRUE]

\* cloudtrail_conn.create_trail(...)
CreateTrail(p) ==
    /\ proc[p].pc = "create_trail"
    /\ LET region_name == proc[p].region_names[proc[p].idx]
           a == TrailArgs(p)
           call(st) == TrailCall("create_trail", region_name, a.name, a.s3_bucket_name,
                             a.s3_key_prefix, a.include_global_service_events, st)
           exists == \E i \in DOMAIN trails[region_name] :
                        trails[region_name][i].Name = a.name
       IN \E st \in (IF exists THEN {} ELSE {HttpOk}) \cup RemoteErr :
            IF st = HttpOk
            THEN /\ trails' = [trails EXCEPT ![region_name] = Append(@,
                        Trail(a.name, a.s3_bucket_name, a.s3_key_prefix,
                              a.include_global_service_events, FALSE))]
                 /\ proc' = [proc EXCEPT ![p] = [@ EXCEPT !.pc = "start_logging",
                                 !.calls = Append(@, call(st))]]
            ELSE /\ Fail(p, "JSONResponseError", st, call(st))
                 /\ UNCHANGED trails
    /\ UNCHANGED <<buckets, policy, regions, caller_arn, run, hist>>

\* cloudtrail_conn.update_trail(...)
UpdateTrail(p) ==
    /\ proc[p].pc = "update_trail"
    /\ LET region_name == proc[p].region_names[proc[p].idx]
           a == TrailArgs(p)
           call(st) == TrailCall("update_trail", region_name, a.name, a.s3_bucket_name,
                             a.s3_key_prefix, a.include_global_service_events, st)
       IN \E st \in {HttpOk} \cup RemoteErr :
            IF st = HttpOk
            THEN /\ trails' = [trails EXCEPT ![region_name] =
                        [i \in DOMAIN @ |->
                            IF @[i].Name = a.name
                            THEN Trail(a.name, a.s3_bucket_name, a.s3_key_prefix,
                                       a.include_global_service_events, @[i].IsLogging)
                            ELSE @[i]]]
                 /\ proc' = [proc EXCEPT ![p] = [@ EXCEPT !.pc = "start_logging",
                                 !.calls = Append(@, call(st))]]
            ELSE /\ Fail(p, "JSONResponseError", st, call(st))
                 /\ UNCHANGED trails
    /\ UNCHANGED <<buckets, policy, regions, caller_arn, run, hist>>

\* cloudtrail_conn.start_logging(trail_name), and the step of the for loop
StartLogging(p) ==
    /\ proc[p].pc = "start_logging"
    /\ LET region_name == proc[p].region_names[proc[p].idx]
           call(st) == TrailCall("start_logging", region_name, proc[p].trail_name,
                             <<>>, <<>>, FALSE, st)
       IN \E st \in {HttpOk} \cup RemoteErr :
            IF st = HttpOk
            THEN /\ trails' = [trails EXCEPT ![region_name] =
                        [i \in DOMAIN @ |->
                            IF @[i].Name = proc[p].trail_name
                            THEN [@[i] EXCEPT !.IsLogging = TRUE]
                            ELSE @[i]]]
                 /\ proc' = [proc EXCEPT ![p] = [@ EXCEPT
                                 !.pc = AfterRegion(proc[p].region_names, proc[p].idx),
                                 !.idx = IF proc[p].idx < Len(proc[p].region_names)
                                         THEN proc[p].idx + 1 ELSE proc[p].idx,
                                 !.calls = Append(@, call(st))]]
            ELSE /\ Fail(p, "JSONResponseError", st, call(st))
                 /\ UNCHANGED trails
    /\ UNCHANGED <<buckets, policy, regions, caller_arn, run, hist>>

(***************************************************************************)
(* The tool is run again, after a run that succeeded, with the same        *)
(* arguments: nothing is kept between runs but the account itself.         *)
(***************************************************************************)
Rerun(p) ==
    /\ proc[p].pc = "done"
    /\ run < MaxRuns
    /\ run' = run + 1
    /\ proc' = [proc EXCEPT ![p] = Fresh(proc[p].entry, proc[p].s3_prefix)]
    /\ hist' = [hist EXCEPT !.prev = remote]
    /\ UNCHANGED <<buckets, policy, trails, regions, caller_arn>>

(***************************************************************************)
(* Specifications                                                          *)
(***************************************************************************)
OtherPolicyText == json_dumps(NewPolicy(<<AdminStmt>>))

\* Policies a full run starts from: none, or one with the tool's and other statements.
MainPolicyTexts ==
    {<<>>, json_dumps(NewPolicy(<<OldWriteStmt, AdminStmt>>))}

\* The whole tool (__main__), run up to MaxRuns times.
Init ==
    /\ buckets \in {{OtherBucket}, {OtherBucket, BucketName}}
    /\ \E t \in (IF BucketName \in buckets THEN MainPolicyTexts ELSE {<<>>}) :
          policy = [b \in BucketNames |-> IF b = BucketName THEN t ELSE OtherPolicyText]
    /\ regions \in RegionLists
    /\ trails \in {t \in [AllRegions -> InitTrailLists] :
                      \A r \in AllRegions \ Range(regions) : t[r] = <<OldTrail(1)>>}
    /\ caller_arn = UserArn
    /\ proc = [p \in Procs |-> IF p = 1 THEN Fresh("ensure_s3_bucket", <<"/p">>) ELSE Idle]
    /\ run = 1
    /\ hist = [first |-> remote, prev |-> remote]

Next ==
    \E p \in Procs :
        \/ GetBucket(p)
        \/ CreateBucket(p)
        \/ GetPolicy(p)
        \/ GetUser(p)
        \/ SetPolicy(p)
        \/ GetRegions(p)
        \/ DescribeTrails(p)
        \/ CreateTrail(p)
        \/ UpdateTrail(p)
        \/ StartLogging(p)
        \/ Rerun(p)

Spec == Init /\ [][Next]_vars

\* ensure_bucket_policy alone, on a bucket that exists, run up to MaxRuns times.
InitPolicy ==
    /\ buckets = {OtherBucket, BucketName}
    /\ \E t \in {<<>>} \cup PolicyTexts :
          policy = [b \in BucketNames |-> IF b = BucketName THEN t ELSE OtherPolicyText]
    /\ trails = [r \in AllRegions |-> <<>>]
    /\ regions = <<>>
    /\ caller_arn \in Arns
    /\ \E pre \in Prefixes :
          proc = [p \in Procs |-> IF p = 1 THEN Fresh("get_policy", pre) ELSE Idle]
    /\ run = 1
    /\ hist = [first |-> remote, prev |-> remote]

NextPolicy ==
    \E p \in Procs :
        \/ GetPolicy(p)
        \/ GetUser(p)
        \/ SetPolicy(p)
        \/ Rerun(p)

SpecPolicy == InitPolicy /\ [][NextPolicy]_vars

\* Two invocations of ensure_bucket_policy on the same bucket at the same time.
InitConc ==
    /\ buckets = {OtherBucket, BucketName}
    /\ \E t \in MainPolicyTexts :
          policy = [b \in BucketNames |-> IF b = BucketName THEN t ELSE OtherPolicyText]
    /\ trails = [r \in AllRegions |-> <<>>]
    /\ regions = <<>>
    /\ caller_arn \in Arns
    /\ proc \in [Procs -> {Fresh("get_policy", pre) : pre \in Prefixes}]
    /\ run = 1
    /\ hist = [first |-> remote, prev |-> remote]

NextConc ==
    \E p \in Procs :
        \/ GetPolicy(p)
        \/ GetUser(p)
        \/ SetPolicy(p)

SpecConc == InitConc /\ [][NextConc]_vars

(***************************************************************************)
(* Properties                                                              *)
(***************************************************************************)
\* What the properties say of a policy is read off its text, not off the
\* locals of the tool.
StartsReserved(sid) ==
    sid # <<>> /\ sid[1] \in {"AWSCloudTrailAclCheck", "AWSCloudTrailWrite"}

StatementsOf(text) ==
    IF text = <<>> THEN <<>> ELSE json_loads(text).v["Statement"].v

HasSid(st) == HasKey(st, "Sid")
SidOf(st) == st.v["Sid"].v

\* A policy the composer can process: none, or a Statement list whose statements have Sids.
WellFormed(text) ==
    \/ text = <<>>
    \/ /\ HasKey(json_loads(text), "Statement")
       /\ \A i \in DOMAIN StatementsOf(text) : HasSid(StatementsOf(text)[i])

CountSid(stmts, sid) ==
    Cardinality({i \in DOMAIN stmts : HasSid(stmts[i]) /\ SidOf(stmts[i]) = sid})

CountCalls(p, ops) ==
    Cardinality({i \in DOMAIN proc[p].calls : proc[p].calls[i].op \in ops})

LastCall(p) == proc[p].calls[Len(proc[p].calls)]

\* The statements a run of the composer is to leave, given the policy before it.
ExpectedStatements(before, prefix) ==
    SelectSeq(StatementsOf(before), LAMBDA st : ~StartsReserved(SidOf(st)))
    \o <<get_aws_cloudtrail_aclcheck_s3_policy_statement(BucketName),
         get_aws_cloudtrail_write_s3_policy_statement(
             AccountIdOf(caller_arn), BucketName, prefix)>>

\* C1: after N >= 1 successful runs of ensure_bucket_policy in a row on the
\* same bucket with the same prefix, the policy has exactly one statement with
\* Sid AWSCloudTrailAclCheck20131101 and exactly one with Sid
\* AWSCloudTrailWrite20131101, every statement present before the first run
\* whose Sid does not start with a reserved prefix is still present, and the
\* policy after run N+1 equals the policy after run N.
C1_Idempotent ==
    proc[1].pc = "done" =>
        LET now == StatementsOf(policy[BucketName])
            first == StatementsOf(hist.first.policy[BucketName])
        IN  /\ CountSid(now, AclCheckSid) = 1
            /\ CountSid(now, WriteSid) = 1
            /\ \A i \in DOMAIN first :
                  (HasSid(first[i]) /\ ~StartsReserved(SidOf(first[i])))
                      => \E j \in DOMAIN now : now[j] = first[i]
            /\ run >= 2 => policy[BucketName] = hist.prev.policy[BucketName]

\* The second run is over, on a policy that an administrator wrote (compact,
\* keys in another order) with a stale statement of the tool and one of their own.
C1_Witness ==
    /\ proc[1].pc = "done"
    /\ run = 2
    /\ hist.first.policy[BucketName] =
          Serialize(NewPolicy(<<OldWriteStmt, AdminStmt>>), FALSE, Reverse(KeyOrder))

\* C2: the Statement list passed to set_policy is the existing policy's
\* statements (none when get_policy answers 404) without those whose Sid begins
\* with AWSCloudTrailAclCheck or AWSCloudTrailWrite, the others unchanged and in
\* order, then the new ACL-check statement, then the new write statement; a
\* statement whose Sid has one of those strings elsewhere than at its start is kept.
C2_MergeResult ==
    LET expected == ExpectedStatements(hist.prev.policy[BucketName], proc[1].s3_prefix)
    IN  /\ proc[1].pc = "set_policy" => proc[1].new_statements = expected
        /\ proc[1].pc = "done" =>
              json_loads(policy[BucketName]) = NewPolicy(expected)

\* set_policy was called on a policy with a statement to strip and one whose
\* Sid has a reserved string in the middle.
C2_Witness ==
    /\ proc[1].pc = "done"
    /\ run = 1
    /\ hist.first.policy[BucketName] = json_dumps(NewPolicy(<<InfixStmt, PrefixStmt>>))
    /\ StatementsOf(policy[BucketName])[1] = InfixStmt

\* C9: ensure_bucket_policy changes the bucket's policy only through its final
\* set_policy call: when an earlier step fails (get_policy with a status other
\* than 404, a policy without a Statement list, a statement without Sid, the
\* identity lookup), set_policy is never called and the policy is what it was;
\* on success set_policy is called exactly once.
C9_PolicyFrame ==
    LET before == hist.prev.policy[BucketName]
    IN  /\ proc[1].pc # "done" => policy = hist.prev.policy
        /\ policy[OtherBucket] = OtherPolicyText
        /\ (proc[1].pc = "failed" /\ LastCall(1).op # "set_policy")
              => CountCalls(1, {"set_policy"}) = 0
        /\ (~WellFormed(before) /\ proc[1].calls # <<>>)
              => proc[1].pc = "failed"
        /\ proc[1].pc = "done" => CountCalls(1, {"set_policy"}) = 1

\* The composer failed on the second statement of a policy (it has no Sid),
\* after keeping the first.
C9_Witness ==
    /\ proc[1].pc = "failed"
    /\ proc[1].err = "KeyError"
    /\ hist.prev.policy[BucketName] = json_dumps(NewPolicy(<<AdminStmt, NoSidStmt>>))

LookupOps == {"get_bucket", "get_policy"}
WriteOps == {"create_bucket", "set_policy", "create_trail", "update_trail", "start_logging"}
TrailOps == {"describe_trails", "create_trail", "update_trail", "start_logging"}

FailedLookup(c) == c.op \in LookupOps /\ c.status \notin {HttpOk, NotFound}

\* C3 as stated: when get_bucket or get_policy fails with a status other than
\* 404, the run aborts and no write/update call has been issued in that run.
C3_Original ==
    \A i \in DOMAIN proc[1].calls :
        FailedLookup(proc[1].calls[i])
            => proc[1].pc = "failed" /\ CountCalls(1, WriteOps) = 0

\* C3, amended: when get_bucket or get_policy fails with a status other than
\* 404, the run aborts there: the failed lookup is the last call of the run, no
\* set_policy, create_trail, update_trail or start_logging call has been issued,
\* and no create_bucket call either unless the failed lookup is get_policy and
\* get_bucket had answered 404; the policy and the trails are as before the run.
C3_Amended ==
    \A i \in DOMAIN proc[1].calls :
        FailedLookup(proc[1].calls[i]) =>
            /\ proc[1].pc = "failed"
            /\ i = Len(proc[1].calls)
            /\ CountCalls(1, WriteOps \ {"create_bucket"}) = 0
            /\ proc[1].calls[i].op = "get_bucket" => CountCalls(1, {"create_bucket"}) = 0
            /\ CountCalls(1, {"create_bucket"}) = 1 => proc[1].calls[1].status = NotFound
            /\ policy = hist.prev.policy
            /\ trails = hist.prev.trails

\* get_policy failed with 403 on the bucket the run had just created.
C3_Witness ==
    /\ proc[1].pc = "failed"
    /\ LastCall(1).op = "get_policy"
    /\ LastCall(1).status = 403
    /\ CountCalls(1, {"create_bucket"}) = 1

\* C4: when describe_trails returns no trail, exactly one create_trail call is
\* issued, with name "Default", and no update_trail call; when it returns one or
\* more, exactly one update_trail call is issued, on the first trail's name, no
\* create_trail call, and no call on another trail of the list; either call
\* carries the bucket name, the prefix and include_global_service_events = true.
C4_BranchSelection ==
    LET calls == proc[1].calls
    IN  /\ \A i \in DOMAIN calls :
              calls[i].op \in {"create_trail", "update_trail"} =>
                  LET c == calls[i]
                      before == hist.prev.trails[c.conn]
                  IN  /\ before = <<>> => c.op = "create_trail" /\ c.name = DefaultTrailName
                      /\ before # <<>> => c.op = "update_trail" /\ c.name = before[1].Name
                      /\ c.bucket = BucketName
                      /\ c.prefix = proc[1].s3_prefix
                      /\ c.global = TRUE
                      /\ Cardinality({j \in DOMAIN calls :
                             /\ calls[j].conn = c.conn
                             /\ calls[j].op \in {"create_trail", "update_trail"}}) = 1
                      /\ \A j \in DOMAIN calls :
                             (calls[j].conn = c.conn /\ calls[j].op = "start_logging")
                                 => calls[j].name = c.name
        /\ \A i \in DOMAIN calls :
              (calls[i].op = "describe_trails" /\ calls[i].status = HttpOk /\ i < Len(calls))
                  => /\ calls[i + 1].op \in {"create_trail", "update_trail"}
                     /\ calls[i + 1].conn = calls[i].conn
        /\ \A r \in AllRegions :
              /\ Len(trails[r]) >= Len(hist.prev.trails[r])
              /\ \A k \in 2..Len(hist.prev.trails[r]) : trails[r][k] = hist.prev.trails[r][k]

\* One region had no trail and got "Default"; another had two and its first was updated.
C4_Witness ==
    LET calls == proc[1].calls
    IN  \E i, j \in DOMAIN calls :
            /\ calls[i].op = "create_trail" /\ calls[i].status = HttpOk
            /\ calls[j].op = "update_trail" /\ calls[j].status = HttpOk
            /\ Len(hist.prev.trails[calls[j].conn]) = 2
            /\ run = 1

TrailCallsOf(p) == SelectSeq(proc[p].calls, LAMBDA c : c.op \in TrailOps)

\* C5: a successful ensure_cloudtrail issues, for each region of the list and
\* in list order, one create_trail or update_trail call and then one
\* start_logging call on the same trail name, on that region's connection; no
\* call goes to a region outside the list or to a region other than the current
\* one, and a region's calls are over before the next region's first call.
C5_RegionCoverage ==
    LET tc == TrailCallsOf(1)
    IN  /\ \A i \in DOMAIN tc :
              LET k == ((i - 1) \div 3) + 1
                  ph == (i - 1) % 3
              IN  /\ k <= Len(regions)
                  /\ tc[i].conn = regions[k]
                  /\ ph = 0 => tc[i].op = "describe_trails"
                  /\ ph = 1 => tc[i].op \in {"create_trail", "update_trail"}
                  /\ ph = 2 => tc[i].op = "start_logging" /\ tc[i].name = tc[i - 1].name
        /\ proc[1].pc = "done" => Len(tc) = 3 * Len(regions)

\* A run over two regions, listed in the order 2, 1, is over.
C5_Witness ==
    /\ proc[1].pc = "done"
    /\ regions = <<2, 1>>
    /\ TrailCallsOf(1)[6].op = "start_logging"

\* The trail the tool manages in a region, given the trails before the run.
ManagedName(before) == IF before = <<>> THEN DefaultTrailName ELSE before[1].Name

Managed(r, before) ==
    \E i \in DOMAIN trails[r] :
        trails[r][i] = Trail(ManagedName(before), BucketName, proc[1].s3_prefix, TRUE, TRUE)

\* C6: when describe_trails, create_trail, update_trail or start_logging fails
\* in a region, no call is issued for a later region, the failed call is not
\* issued again, and what the run did before stays: the trails of the regions
\* before it are created or updated and logging, the bucket exists and has its
\* new policy.
C6_RegionFailureAborts ==
    LET calls == proc[1].calls
        tc == TrailCallsOf(1)
    IN  \A i \in DOMAIN calls :
            (calls[i].op \in TrailOps /\ calls[i].status # HttpOk) =>
                /\ proc[1].pc = "failed"
                /\ i = Len(calls)
                /\ Cardinality({j \in DOMAIN calls :
                       calls[j].op = calls[i].op /\ calls[j].conn = calls[i].conn}) = 1
                /\ calls[i].conn = regions[((Len(tc) - 1) \div 3) + 1]
                /\ \A m \in 1..((Len(tc) - 1) \div 3) :
                       Managed(regions[m], hist.prev.trails[regions[m]])
                /\ BucketName \in buckets
                /\ StatementsOf(policy[BucketName]) =
                       ExpectedStatements(hist.prev.policy[BucketName], proc[1].s3_prefix)

\* start_logging failed in the second of two regions.
C6_Witness ==
    /\ proc[1].pc = "failed"
    /\ LastCall(1).op = "start_logging"
    /\ Len(regions) = 2
    /\ LastCall(1).conn = regions[2]
    /\ hist.prev.trails[regions[1]] = <<>>

\* C7: ensure_s3_bucket issues one get_bucket call; when it succeeds, no
\* create_bucket call is issued and the bucket is returned; when it fails with
\* 404, one create_bucket call with the same name is issued and its result
\* returned; when it fails with another status, the error propagates, no
\* create_bucket call is issued and the set of buckets is unchanged.
C7_BucketEnsurer ==
    LET c == proc[1]
    IN  /\ CountCalls(1, {"get_bucket"}) = (IF c.pc = "ensure_s3_bucket" THEN 0 ELSE 1)
        /\ c.calls # <<>> =>
              LET st == c.calls[1].status
              IN  /\ c.calls[1].op = "get_bucket" /\ c.calls[1].bucket = BucketName
                  /\ st = HttpOk =>
                        /\ CountCalls(1, {"create_bucket"}) = 0
                        /\ c.archive_bucket = BucketName
                        /\ buckets = hist.prev.buckets
                        /\ BucketName \in buckets
                  /\ st = NotFound =>
                        /\ CountCalls(1, {"create_bucket"}) =
                              (IF c.pc = "create_bucket" THEN 0 ELSE 1)
                        /\ c.pc # "create_bucket" =>
                              /\ c.calls[2].op = "create_bucket"
                              /\ c.calls[2].bucket = BucketName
                              /\ c.calls[2].status = HttpOk =>
                                    /\ c.archive_bucket = BucketName
                                    /\ buckets = hist.prev.buckets \cup {BucketName}
                  /\ st \notin {HttpOk, NotFound} =>
                        /\ c.pc = "failed"
                        /\ c.status = st
                        /\ CountCalls(1, {"create_bucket"}) = 0
                        /\ buckets = hist.prev.buckets

\* get_bucket answered 404 and the bucket was created.
C7_Witness ==
    /\ proc[1].pc = "get_policy"
    /\ proc[1].calls[1].status = NotFound
    /\ CountCalls(1, {"create_bucket"}) = 1
    /\ BucketName \in buckets

\* C10: when a full run succeeds and the tool is run again with the same bucket
\* name and prefix, the second run issues no create_bucket and no create_trail
\* call (every region takes the update branch, on the trail the first run
\* created or updated), and the account after the second run (buckets, bucket
\* policy, each region's trails) equals the account after the first.
C10_RerunIdempotent ==
    run >= 2 =>
        LET calls == proc[1].calls
        IN  /\ CountCalls(1, {"create_bucket", "create_trail"}) = 0
            /\ \A i \in DOMAIN calls :
                  calls[i].op = "update_trail" =>
                      /\ calls[i].name = hist.prev.trails[calls[i].conn][1].Name
                      /\ hist.prev.trails[calls[i].conn][1].S3BucketName = BucketName
                      /\ calls[i].name = ManagedName(hist.first.trails[calls[i].conn])
            /\ proc[1].pc = "done" =>
                  /\ remote = hist.prev
                  /\ CountCalls(1, {"update_trail"}) = Len(regions)

\* The second run is over, in an account where the first had to create the
\* bucket and a trail.
C10_Witness ==
    /\ run = 2
    /\ proc[1].pc = "done"
    /\ BucketName \notin hist.first.buckets
    /\ Len(regions) = 2
    /\ hist.first.trails[regions[1]] = <<>>
    /\ hist.first.trails[regions[2]] # <<>>

\* C8: the get_policy / set_policy pair of ensure_bucket_policy is not atomic:
\* two invocations on the same bucket can both fetch the policy before either
\* sets it, and each set_policy replaces the bucket's policy by the one its
\* invocation computed from what it had fetched, with its own prefix in the
\* write statement's Resource, so the last to call set_policy decides the policy.
C8_LastWriterWins ==
    [][\A p \in Procs :
          (proc[p].pc = "set_policy" /\ proc'[p].pc = "done") =>
              LET stmts == StatementsOf(policy'[BucketName])
              IN  /\ policy'[BucketName] = json_dumps(NewPolicy(proc[p].new_statements))
                  /\ stmts = ExpectedStatements(proc[p].existing_bucket_policy_str,
                                                proc[p].s3_prefix)
                  /\ stmts[Len(stmts)].v["Resource"].v =
                        <<"arn:aws:s3:::">> \o BucketName \o proc[p].s3_prefix
                        \o <<"/AWSLogs/">> \o AccountIdOf(caller_arn) \o <<"/*">>]_vars

\* Both invocations fetched the policy the bucket had at first, both set
\* theirs, and the bucket holds the second's: the first's is lost.
C8_Witness ==
    /\ \A p \in Procs :
          /\ proc[p].pc = "done"
          /\ proc[p].existing_bucket_policy_str = hist.first.policy[BucketName]
    /\ hist.first.policy[BucketName] # <<>>
    /\ proc[1].s3_prefix # proc[2].s3_prefix
    /\ policy[BucketName] = json_dumps(NewPolicy(proc[2].new_statements))
    /\ policy[BucketName] # json_dumps(NewPolicy(proc[1].new_statements))

=============================================================================
